---- MODULE Spec2Model ----
(***************************************************************************)
(* Model of the mbox_processor package: the command line entry point       *)
(* (cli.main), the configuration (Config), the mailbox pipeline            *)
(* (MboxProcessor.process), the attachment store (AttachmentHandler,       *)
(* Attachment.save) and the content extractor (ContentProcessor).          *)
(*                                                                         *)
(* Text is modelled as a sequence of one-character strings, so that the    *)
(* string operations of the source (replace, lower, split, rsplit, regex   *)
(* search, Path.suffix) are computed and not assumed.  A path is a         *)
(* sequence of components, each component being such a text.               *)
(***************************************************************************)
EXTENDS Integers, Sequences, FiniteSets, TLC

(***************************************************************************)
(* Bounds of the model.                                                    *)
(***************************************************************************)
MaxMsgs == 2
MaxAtts == 2
RandCount == 1
MaxCeiling == 2

(***************************************************************************)
(* Text helpers.                                                           *)
(***************************************************************************)
Absent == <<"<absent>">>

UpperChars == {"A", "B", "J", "R", "E", "D", "M", "P", "F"}

LowerChar(c) ==
    CASE c = "A" -> "a"
      [] c = "B" -> "b"
      [] c = "J" -> "j"
      [] c = "R" -> "r"
      [] c = "E" -> "e"
      [] c = "D" -> "d"
      [] c = "M" -> "m"
      [] c = "P" -> "p"
      [] c = "F" -> "f"
      [] OTHER -> c

AlnumChars ==
    {"a", "b", "c", "d", "e", "f", "j", "m", "p", "r", "x",
     "0", "1", "2", "3", "4", "5", "6", "7", "8", "9"} \cup UpperChars

\* str.lower()
Lower(s) == [k \in 1..Len(s) |-> LowerChar(s[k])]

\* str.replace(c, d) for a one-character c
Replace(s, c, d) == [k \in 1..Len(s) |-> IF s[k] = c THEN d ELSE s[k]]

\* str.isalnum(): non-empty and every character alphanumeric
IsAlnum(s) == Len(s) >= 1 /\ \A k \in 1..Len(s) : s[k] \in AlnumChars

\* index of the first / last occurrence of c in s, 0 when there is none
Find(s, c) ==
    IF \E k \in 1..Len(s) : s[k] = c
    THEN CHOOSE k \in 1..Len(s) : s[k] = c /\ \A j \in 1..(k - 1) : s[j] # c
    ELSE 0

RFind(s, c) ==
    IF \E k \in 1..Len(s) : s[k] = c
    THEN CHOOSE k \in 1..Len(s) : s[k] = c /\ \A j \in (k + 1)..Len(s) : s[j] # c
    ELSE 0

\* s.split(c)[0]
SplitHead(s, c) == IF Find(s, c) = 0 THEN s ELSE SubSeq(s, 1, Find(s, c) - 1)

\* s.split(c)[1], defined when c occurs in s
SplitSecond(s, c) == SplitHead(SubSeq(s, Find(s, c) + 1, Len(s)), c)

\* s.rsplit('.', 1) as a sequence of one or two texts
RSplitDot(s) ==
    IF RFind(s, ".") = 0 THEN <<s>>
    ELSE <<SubSeq(s, 1, RFind(s, ".") - 1), SubSeq(s, RFind(s, ".") + 1, Len(s))>>

\* str(n) for a natural number
Digit(d) ==
    CASE d = 0 -> "0" [] d = 1 -> "1" [] d = 2 -> "2" [] d = 3 -> "3"
      [] d = 4 -> "4" [] d = 5 -> "5" [] d = 6 -> "6" [] d = 7 -> "7"
      [] d = 8 -> "8" [] d = 9 -> "9"

RECURSIVE NumStr(_)
NumStr(n) == IF n < 10 THEN <<Digit(n)>> ELSE NumStr(n \div 10) \o <<Digit(n % 10)>>

\* re.search(r'<([^>]+)>', s): the leftmost '<' that is followed by at least
\* one character other than '>' and then by '>'; the group, or Absent.
BracketStarts(s) ==
    {k \in 1..Len(s) :
        /\ s[k] = "<"
        /\ k + 1 <= Len(s)
        /\ s[k + 1] # ">"
        /\ \E j \in (k + 2)..Len(s) : s[j] = ">"}

BracketGroup(s) ==
    IF BracketStarts(s) = {} THEN Absent
    ELSE LET k == CHOOSE x \in BracketStarts(s) : \A y \in BracketStarts(s) : x <= y
             j == CHOOSE x \in (k + 2)..Len(s) :
                      s[x] = ">" /\ \A y \in (k + 2)..(x - 1) : s[y] # ">"
         IN  SubSeq(s, k + 1, j - 1)

\* PurePath.name and PurePath.suffix of a text naming a file
LastComponent(s) == IF RFind(s, "/") = 0 THEN s ELSE SubSeq(s, RFind(s, "/") + 1, Len(s))

PathSuffix(s) ==
    LET name == LastComponent(s)
        k == RFind(name, ".")
    IN  IF 1 < k /\ k < Len(name) THEN SubSeq(name, k, Len(name)) ELSE <<>>

(***************************************************************************)
(* Paths: a path is a sequence of components.                              *)
(***************************************************************************)
\* the components of a text, split at '/', empty components dropped
RECURSIVE Components(_)
Components(s) ==
    IF Len(s) = 0 THEN <<>>
    ELSE IF Find(s, "/") = 0 THEN <<s>>
    ELSE IF Find(s, "/") = 1 THEN Components(SubSeq(s, 2, Len(s)))
    ELSE <<SubSeq(s, 1, Find(s, "/") - 1)>> \o Components(SubSeq(s, Find(s, "/") + 1, Len(s)))

\* pathlib: dir / s; an s that starts with '/' replaces dir
PathJoin(dir, s) ==
    IF Len(s) >= 1 /\ s[1] = "/" THEN Components(s) ELSE dir \o Components(s)

Parent(p) == SubSeq(p, 1, Len(p) - 1)

Prefixes(p) == {SubSeq(p, 1, k) : k \in 1..Len(p)}

IsUnder(p, dir) == Len(p) > Len(dir) /\ SubSeq(p, 1, Len(dir)) = dir

\* Config.attachments_dir (output_dir / "attachments"), the attachment root
BaseDir == << <<"o">>, <<"a", "t", "t">> >>

\* AttachmentHandler.temp_dir
TempDir == BaseDir \o << <<"t", "e", "m", "p">> >>

(***************************************************************************)
(* Attachment: derived names.                                              *)
(***************************************************************************)
\* datetime values are records of year, month and day; NoDate is None
NoDate == [y |-> 0, m |-> 0, d |-> 0]

\* the date of the mailbox messages
MessageDate == [y |-> 2024, m |-> 3, d |-> 1]

\* datetime.strftime('%Y-%m-%d'): month and day are padded to two digits
Pad2(n) == IF n < 10 THEN <<"0">> \o NumStr(n) ELSE NumStr(n)

Strftime(date) == NumStr(date.y) \o <<"-">> \o Pad2(date.m) \o <<"-">> \o Pad2(date.d)

\* email_date.strftime('%Y-%m-%d') of the mailbox messages
DateStr == Strftime(MessageDate)

\* random.randint(10000, 99999), restricted to RandCount values
RandLo == 10000
RandomSuffixes == RandLo..(RandLo + RandCount - 1)

\* Attachment.extension
Extension(filename) == IF Len(filename) = 0 THEN <<>> ELSE Lower(PathSuffix(filename))

\* Attachment.has_extension
HasExtension(filename) ==
    IF Len(filename) = 0 THEN FALSE
    ELSE LET parts == RSplitDot(filename)
         IN  IF Len(parts) < 2 THEN FALSE
             ELSE Len(parts[2]) >= 1 /\ Len(parts[2]) <= 10 /\ IsAlnum(Lower(parts[2]))

\* the sender text the names are derived from: the bracketed address, else
\* the whole string
SenderOf(sender_email) ==
    IF BracketGroup(sender_email) # Absent THEN BracketGroup(sender_email) ELSE sender_email

\* the sanitized sender of Attachment.safe_filename
SafeEmail(sender_email) ==
    LET sender == SenderOf(sender_email)
        local == Lower(Replace(Replace(SplitHead(sender, "@"), ".", "_"), "+", "_"))
    IN  IF Find(sender, "@") # 0
        THEN local \o <<"_">> \o Replace(SplitHead(SplitSecond(sender, "@"), ">"), ".", "_")
        ELSE local

\* Attachment.safe_filename, lines 72-102, for the drawn random number rnd
FormatName(email_date, sender_email, filename, rnd) ==
    LET extension == Extension(filename)
        ext == IF Len(extension) >= 1 /\ extension[1] = "." THEN extension
               ELSE <<".">> \o extension
    IN  Strftime(email_date) \o <<"_">> \o SafeEmail(sender_email) \o <<"_">>
            \o NumStr(rnd) \o ext

\* the name of an attachment of a mailbox message
SafeFilename(sender_email, filename, rnd) ==
    FormatName(MessageDate, sender_email, filename, rnd)

\* a save without a precondition
ContextNotChecked(a) == TRUE

\* a precondition that reads the sender only
SenderSet(a) == a.sender_email # Absent /\ Len(a.sender_email) > 0

\* all([self.email_date, self.sender_email]): None and '' are false
ContextSet(a) ==
    a.email_date # NoDate /\ a.sender_email # Absent /\ Len(a.sender_email) > 0

\* the property Attachment.safe_filename of the object a
AttachmentSafeFilename(a, rnd) ==
    IF ~ContextSet(a)
    THEN [raised |-> TRUE, error |-> "ValueError", name |-> <<>>]
    ELSE [raised |-> FALSE, error |-> "none",
          name |-> FormatName(a.email_date, a.sender_email, a.filename, rnd)]

\* the sanitized sender of AttachmentHandler.get_attachment_dir
BucketName(sender_email) ==
    Lower(Replace(Replace(Replace(SenderOf(sender_email), "@", "_"), ".", "_"), "+", "_"))

\* the directory AttachmentHandler.get_attachment_dir returns
AttachmentDir(sender_email) == PathJoin(BaseDir, BucketName(sender_email))

\* the name the collision probe of Attachment.save tries for a counter
ProbeName(filename, counter) ==
    LET name_parts == RSplitDot(filename)
    IN  IF Len(name_parts) > 1
        THEN name_parts[1] \o <<"_">> \o NumStr(counter) \o <<".">> \o name_parts[2]
        ELSE filename \o <<"_">> \o NumStr(counter)

(***************************************************************************)
(* ContentProcessor: the walk of the part tree.                            *)
(*                                                                         *)
(* A node of the part tree is a record; a composite node carries its       *)
(* children in parts, a leaf carries the declared type, the disposition,   *)
(* the declared filename (Absent when there is none), the declared charset *)
(* (Absent when there is none) and the payload as a sequence of bytes,     *)
(* after the transfer decoding of get_payload(decode=True).                *)
(***************************************************************************)
\* bytes.decode(charset, errors='replace') for the codecs of the model:
\* an ASCII byte is its character, any other byte is replaced by U+FFFD
Chr(b) ==
    CASE b = 104 -> "h"
      [] b = 105 -> "i"
      [] b = 60 -> "<"
      [] b = 62 -> ">"
      [] b = 98 -> "b"
      [] b = 37 -> "%"
      [] b = 80 -> "P"
      [] OTHER -> "U+FFFD"

KnownCharsets == {<<"u", "t", "f", "-", "8">>, <<"a", "s", "c", "i", "i">>}

DecodeBytes(payload) == [k \in 1..Len(payload) |-> Chr(payload[k])]

\* sep.join(parts) for a non-empty list of texts
RECURSIVE JoinText(_, _)
JoinText(parts, sep) ==
    IF Len(parts) = 1 THEN parts[1]
    ELSE parts[1] \o sep \o JoinText(Tail(parts), sep)

\* the lists a top-level call of _extract_content creates (lines 78-83);
\* raised: an exception left the walk
NoAccumulators == [text |-> <<>>, html |-> <<>>, atts |-> <<>>, raised |-> FALSE]

\* a synthetic name numbered from the attachments captured so far
SyntheticNameFromCount(n) ==
    <<"a", "t", "t", "a", "c", "h", "m", "e", "n", "t", "_">> \o NumStr(n - 1)

\* f'attachment_{n}'
SyntheticName(n) ==
    <<"a", "t", "t", "a", "c", "h", "m", "e", "n", "t", "_">> \o NumStr(n)

\* payload.decode(charset, errors='replace') with the declared charset, utf-8
\* when none is declared: an unknown charset raises LookupError
DecodeContent(node) ==
    IF node.charset # Absent /\ node.charset \notin KnownCharsets
    THEN [error |-> "LookupError", content |-> <<>>]
    ELSE [error |-> "none", content |-> DecodeBytes(node.payload)]

\* a body leaf whose decode error is not caught
BodyLeafUncaught(node, acc) ==
    IF Len(node.payload) = 0 THEN acc
    ELSE IF DecodeContent(node).error # "none" THEN [acc EXCEPT !.raised = TRUE]
    ELSE IF node.ctype = "text/plain"
         THEN [acc EXCEPT !.text = Append(@, DecodeContent(node).content)]
    ELSE IF node.ctype = "text/html"
         THEN [acc EXCEPT !.html = Append(@, DecodeContent(node).content)]
    ELSE acc

\* _extract_content, lines 116-134: a leaf taken as body content; the except
\* branch of lines 131-132 logs a decode error and the walk goes on
BodyLeaf(node, acc) ==
    IF Len(node.payload) = 0 THEN acc
    ELSE IF DecodeContent(node).error # "none" THEN acc
    ELSE IF node.ctype = "text/plain"
         THEN [acc EXCEPT !.text = Append(@, DecodeContent(node).content)]
    ELSE IF node.ctype = "text/html"
         THEN [acc EXCEPT !.html = Append(@, DecodeContent(node).content)]
    ELSE acc

\* what a leaf adds to the accumulators (_extract_content, lines 97-134)
WalkLeaf(node, acc) ==
    IF node.disp \in {"attachment", "inline"}
    THEN IF Len(node.payload) > 0
         THEN [acc EXCEPT !.atts = Append(@,
                  [filename |-> IF node.filename # Absent /\ Len(node.filename) > 0
                                THEN node.filename
                                ELSE SyntheticName(Len(acc.atts) + 1),
                   content_type |-> node.ctype,
                   content_disposition |-> node.disp,
                   payload |-> node.payload,
                   size |-> Len(node.payload)])]
         ELSE acc
    ELSE BodyLeaf(node, acc)

\* the accumulators after _extract_content(node, text_parts, html_parts,
\* attachments) has returned
RECURSIVE Walk(_, _)
RECURSIVE WalkParts(_, _)
Walk(node, acc) ==
    IF node.multipart THEN WalkParts(node.parts, acc) ELSE WalkLeaf(node, acc)

WalkParts(parts, acc) ==
    IF Len(parts) = 0 THEN acc
    ELSE WalkParts(Tail(parts), Walk(Head(parts), acc))

\* the triple _extract_content(msg) returns to process_message
ExtractContent(msg) ==
    LET acc == Walk(msg, NoAccumulators)
    IN  IF msg.multipart
        THEN [text |-> IF Len(acc.text) > 0
                       THEN JoinText(acc.text, <<"\n", "\n">>) ELSE Absent,
              html |-> IF Len(acc.html) > 0
                       THEN JoinText(acc.html, <<"\n">>) ELSE Absent,
              atts |-> acc.atts, raised |-> acc.raised]
        ELSE [text |-> Absent, html |-> Absent, atts |-> acc.atts, raised |-> acc.raised]

\* _html_to_text: the visible text, every tag '<...>' removed
RECURSIVE HtmlToText(_)
HtmlToText(html) ==
    IF BracketStarts(html) = {} THEN html
    ELSE LET k == CHOOSE x \in BracketStarts(html) : \A y \in BracketStarts(html) : x <= y
             j == CHOOSE x \in (k + 2)..Len(html) :
                      html[x] = ">" /\ \A y \in (k + 2)..(x - 1) : html[y] # ">"
         IN  SubSeq(html, 1, k - 1) \o HtmlToText(SubSeq(html, j + 1, Len(html)))

\* Python truth value of an optional text
Truthy(t) == t # Absent /\ Len(t) > 0

NoContent == <<"[", "N", "o", " ", "c", "o", "n", "t", "e", "n", "t", "]">>

\* ContentProcessor(keep_html=False) of MboxProcessor.__init__
KeepHtml == FALSE

\* ContentProcessor.process_message, for a message that parses; msg.From is
\* the From header (Absent when there is none), msg.root the part tree
ProcessMessage(msg) ==
    LET ex == ExtractContent(msg.root)
        text1 == IF ~Truthy(ex.text) /\ Truthy(ex.html) THEN HtmlToText(ex.html) ELSE ex.text
        text2 == IF ~Truthy(text1) /\ ~Truthy(ex.html) THEN NoContent ELSE text1
    IN  [from_addr |-> IF msg.From = Absent THEN <<>> ELSE msg.From,
         text_content |-> text2,
         html_content |-> IF KeepHtml THEN ex.html ELSE Absent,
         attachments |-> ex.atts,
         raised |-> ex.raised]

(***************************************************************************)
(* Inputs of the pipeline.                                                 *)
(***************************************************************************)
Leaf(ctype, disp, filename, charset, payload) ==
    [multipart |-> FALSE, parts |-> <<>>, ctype |-> ctype, disp |-> disp,
     filename |-> filename, charset |-> charset, payload |-> payload]

Multipart(parts) ==
    [multipart |-> TRUE, parts |-> parts, ctype |-> "multipart/mixed", disp |-> "none",
     filename |-> Absent, charset |-> Absent, payload |-> <<>>]

\* sequences over S of length at most n
SeqUpTo(S, n) == UNION {[1..k -> S] : k \in 0..n}

PdfName == <<"a", ".", "p", "d", "f">>
ReadmeName == <<"R", "E", "A", "D", "M", "E">>
PdfBytes == <<37, 80>>

\* the attachment parts of the mailbox messages
AttachmentLeaves ==
    {Leaf("application/pdf", "attachment", f, Absent, PdfBytes) : f \in {PdfName, ReadmeName}}

Addr == <<"a", "@", "b", ".", "c">>
BracketAddr == <<"<", "a", "@", "B", ".", "c", ">">>
\* a From header that starts with a path separator
RootedAddr == <<"/", "x", "@", "b", ".", "c">>

\* a message of the mailbox: From header, whether the raw header holds 8-bit
\* bytes (mailbox then hands out a Header object, not a str), whether the
\* message fails to parse, and the part tree
Message(from, raw8bit, malformed, root) ==
    [From |-> from, raw8bit |-> raw8bit, malformed |-> malformed, root |-> root]

MalformedMessage == Message(Absent, FALSE, TRUE, Multipart(<<>>))

\* The mailbox messages: one sender with every list of attachments, and the
\* other kinds of From header with at most one attachment
Messages ==
    {MalformedMessage} \cup
    {Message(Addr, FALSE, FALSE, Multipart(ps)) : ps \in SeqUpTo(AttachmentLeaves, MaxAtts)} \cup
    {Message(f[1], f[2], FALSE, Multipart(ps)) :
        f \in {<<Addr, TRUE>>, <<BracketAddr, FALSE>>, <<Absent, FALSE>>,
                <<RootedAddr, FALSE>>},
        ps \in SeqUpTo({Leaf("application/pdf", "attachment", PdfName, Absent, PdfBytes)}, 1)}

\* files found in the output tree when the run starts
OldFile == AttachmentDir(Addr) \o <<SafeFilename(Addr, PdfName, RandLo)>>
StagedFile == TempDir \o <<BucketName(Addr), <<"f">> >>
StagedAtRoot == TempDir \o << <<"g">> >>

File(path, data) == [path |-> path, data |-> data]

InitialTrees ==
    {[files |-> {}, dirs |-> {}],
     [files |-> {File(OldFile, PdfBytes), File(StagedFile, PdfBytes), File(StagedAtRoot, <<98>>)},
      dirs |-> Prefixes(Parent(OldFile)) \cup Prefixes(Parent(StagedFile))]}

(***************************************************************************)
(* Config (config.py).                                                     *)
(***************************************************************************)
Max(a, b) == IF a >= b THEN a ELSE b
Min(a, b) == IF a <= b THEN a ELSE b

\* Config.__init__: the fields the pipeline reads
ConfigOf(a) ==
    [max_messages |-> IF a.max_messages # 0 THEN Max(0, a.max_messages) ELSE 0,
     post_process |-> a.post_process,
     keep_temp |-> a.keep_temp,
     verbose |-> a.verbose]

\* Config.validate: the exception it raises, "none" when it returns
Validate(config, input_exists) ==
    IF ~input_exists THEN "FileNotFoundError"
    ELSE IF config.max_messages < 0 THEN "ValueError"
    ELSE "none"

(***************************************************************************)
(* State.                                                                  *)
(***************************************************************************)
VARIABLES
    args,        \* the arguments given to Config, and the state of the input file
    config,      \* the Config object
    pc,          \* where the run is
    stats,       \* the statistics dictionary of process()
    i,           \* index of enumerate(mbox)
    cur,         \* the message being processed
    files,       \* the files on disk: records [path, data]
    dirs,        \* the directories on disk
    pending,     \* the exception in flight when process() enters its finally block
    proc_result, \* how process() ended: "none", "returned", "raised"
    exit_code,   \* what main returned, -1 while it runs
    constructed, \* an MboxProcessor was constructed
    written,     \* history: the paths Attachment.save returned
    save_count,  \* history: the number of times Attachment.save returned a path
    extracted,   \* history: the attachments extracted from the messages counted as processed
    clobbered,   \* history: the paths Attachment.save wrote while they existed
    old_files,   \* history: the files that existed when the run started
    fin_count,   \* history: the number of times the finally block of process() ran
    promoted,    \* history: the mappings post_process_attachments returned, in order
    log,         \* the last record an exception handler of the run logged
    cp_in,       \* content extraction: the message given to process_message
    cp_out,      \* content extraction: its result
    cp_pc,       \* content extraction: "input", "done" or "again"
    cp_seen,     \* history: the attachments the earlier calls of process_message captured
    att_in,      \* an Attachment object used on its own
    att_out,     \* what safe_filename or save did with it
    detected,    \* what detect_file_type returned, and for which content
    writers      \* concurrent callers of Attachment.save: where each is, and its locals

vars == <<args, config, pc, stats, i, cur, files, dirs, pending, proc_result,
          exit_code, constructed, written, save_count, extracted, clobbered, old_files,
          fin_count, promoted, log, cp_in, cp_out, cp_pc, cp_seen, att_in, att_out, detected,
          writers>>

pipeVars == <<args, config, pc, stats, i, cur, files, dirs, pending, proc_result,
              exit_code, constructed, written, save_count, extracted, clobbered, old_files,
              fin_count, promoted, log>>

cpVars == <<cp_in, cp_out, cp_pc, cp_seen>>

unitVars == <<att_in, att_out, detected>>

raceVars == <<writers>>

\* MboxProcessor._init_stats
InitStats ==
    [total_messages |-> 0, processed_messages |-> 0, failed_messages |-> 0,
     total_attachments |-> 0, saved_attachments |-> 0, post_processed |-> 0,
     attachments_by_type |-> {}, senders |-> {},
     end_time |-> FALSE, duration_seconds |-> FALSE, attachments_size_bytes |-> 0,
     messages_with_attachments |-> 0]

NoMessage ==
    [msg |-> MalformedMessage, from_addr |-> <<>>, atts |-> <<>>, k |-> 0,
     saved_paths |-> <<>>, save_failures |-> 0]

NoConfig == [max_messages |-> 0, post_process |-> FALSE, keep_temp |-> FALSE,
             verbose |-> FALSE]

NoResult == [from_addr |-> <<>>, text_content |-> Absent, html_content |-> Absent,
             attachments |-> <<>>, raised |-> FALSE]

\* an Attachment as the dataclass constructs it: no context, no saved_path
NoAttachment ==
    [filename |-> <<>>, payload |-> <<>>, email_date |-> NoDate,
     sender_email |-> Absent, saved_path |-> Absent]

NoOutcome ==
    [op |-> "none", raised |-> FALSE, error |-> "none", name |-> <<>>, path |-> <<>>,
     rnd |-> 0, save_dir |-> <<>>]

\* nothing logged by a handler yet
NoLog == [level |-> "none", exc_info |-> FALSE]

\* no concurrent caller of Attachment.save
NoWriters == <<>>

NoDetection == [data |-> <<>>, mime |-> "none", ext |-> <<>>]

\* The arguments of the run: whether the input file exists, whether it opens
\* as a mailbox, the number of messages in it, and the parameters of Config.
\* (cli.main leaves post_process and keep_temp at their defaults; a caller of
\* the package sets them.)  Combinations that only repeat a run are left out:
\* a missing or unreadable input has no messages, keep_temp is read only with
\* post_process, and the longest mailboxes run without post-processing and
\* without a negative ceiling.
AllArguments ==
    [input_exists : BOOLEAN, mbox_readable : BOOLEAN, total : 0..MaxMsgs,
     max_messages : (-1)..MaxCeiling, post_process : BOOLEAN, keep_temp : BOOLEAN,
     verbose : BOOLEAN]

Arguments ==
    {a \in AllArguments :
        /\ (~a.input_exists \/ ~a.mbox_readable) => a.total = 0
        /\ ~a.input_exists => a.mbox_readable
        /\ a.keep_temp => a.post_process
        /\ (a.post_process \/ a.max_messages < 0) => a.total <= 1}

\* dictionaries with counts: a set of records [key, count], one per key
Count(d, key) == IF \E e \in d : e.key = key THEN (CHOOSE e \in d : e.key = key).count ELSE 0
Incr(d, key) == {e \in d : e.key # key} \cup {[key |-> key, count |-> Count(d, key) + 1]}

(***************************************************************************)
(* Attachment.save and AttachmentHandler.save_attachments.                 *)
(***************************************************************************)
ExistsIn(p, fs, ds) == p \in ds \/ \E f \in fs : f.path = p

\* a probe that takes the first candidate as it is
NoProbe(save_dir, filename, filepath, counter, fs, ds) == filepath

\* a probe that tests the first candidate only ("if" for "while")
ProbeOnce(save_dir, filename, filepath, counter, fs, ds) ==
    IF ExistsIn(filepath, fs, ds)
    THEN PathJoin(save_dir, ProbeName(filename, counter))
    ELSE filepath

\* the collision probe of Attachment.save: the first candidate that does not
\* exist, starting from filepath, the next counter being counter
RECURSIVE ProbePath(_, _, _, _, _, _)
ProbePath(save_dir, filename, filepath, counter, fs, ds) ==
    IF ExistsIn(filepath, fs, ds)
    THEN ProbePath(save_dir, filename, PathJoin(save_dir, ProbeName(filename, counter)),
                   counter + 1, fs, ds)
    ELSE filepath

\* Path.mkdir(parents=True, exist_ok=True) fails when a file is in the way
MkdirFails(dir, fs) == \E q \in Prefixes(dir) : \E f \in fs : f.path = q

\* open(filepath, 'wb'); f.write(payload)
WriteFile(fs, filepath, payload) ==
    {f \in fs : f.path # filepath} \cup {File(filepath, payload)}

\* the directory save_attachments saves an attachment of the sender to
SaveDir(sender_email, filename, post_process) == AttachmentDir(sender_email)

\* lines 124-138 of Attachment.save: the probe from save_dir / filename
ProbeFrom(save_dir, filename, fs, ds) ==
    ProbePath(save_dir, filename, PathJoin(save_dir, filename), 1, fs, ds)

\* lines 140-145 of Attachment.save: the write to filepath, ds1 being the
\* directories after the mkdir of line 117
WriteTo(a, filepath, io, fs, ds1) ==
    IF Parent(filepath) \notin ds1 \/ io = "error"
    THEN [raised |-> TRUE, error |-> "OSError", path |-> <<>>,
          saved_path |-> a.saved_path, files |-> fs, dirs |-> ds1]
    ELSE [raised |-> FALSE, error |-> "none", path |-> filepath,
          saved_path |-> filepath,
          files |-> WriteFile(fs, filepath, a.payload), dirs |-> ds1]

\* Attachment.save(save_dir) of the object a, with the random number rnd;
\* io = "error" is an OSError at open().  path is the returned path,
\* saved_path the field of the object afterwards.
AttachmentSave(a, save_dir, rnd, io, fs, ds) ==
    IF ~ContextSet(a)
    THEN [raised |-> TRUE, error |-> "ValueError", path |-> <<>>,
          saved_path |-> a.saved_path, files |-> fs, dirs |-> ds]
    ELSE IF MkdirFails(save_dir, fs)
    THEN [raised |-> TRUE, error |-> "OSError", path |-> <<>>,
          saved_path |-> a.saved_path, files |-> fs, dirs |-> ds]
    ELSE WriteTo(a, ProbeFrom(save_dir,
                              FormatName(a.email_date, a.sender_email, a.filename, rnd),
                              fs, ds \cup Prefixes(save_dir)),
                 io, fs, ds \cup Prefixes(save_dir))

\* what save_attachments keeps of a call of Attachment.save (lines 79-89)
Outcome(r) == [raised |-> r.raised, path |-> r.path, files |-> r.files, dirs |-> r.dirs]

\* One pass of the loop body of save_attachments (lines 69-89) for one
\* attachment: the context is set (the date of a message is never None,
\* _create_email_message falls back to the current time), the directory is
\* looked up and created, and Attachment.save runs.  raised: the body ended
\* in its except branch.
SaveOne(att, sender_email, post_process, rnd, io, fs, ds) ==
    IF MkdirFails(SaveDir(sender_email, att.filename, post_process), fs)
    THEN [raised |-> TRUE, path |-> <<>>, files |-> fs, dirs |-> ds]
    ELSE Outcome(AttachmentSave([filename |-> att.filename, payload |-> att.payload,
                                 email_date |-> MessageDate, sender_email |-> sender_email,
                                 saved_path |-> Absent],
                                SaveDir(sender_email, att.filename, post_process),
                                rnd, io, fs,
                                ds \cup Prefixes(SaveDir(sender_email, att.filename, post_process))))

IoOutcomes == {"ok", "error"}

(***************************************************************************)
(* The counting step of MboxProcessor.process (lines 158-178).             *)
(***************************************************************************)
UnknownSender ==
    <<"u", "n", "k", "n", "o", "w", "n", "@", "u", "n", "k", "n", "o", "w", "n", ".", "c", "o", "m">>

\* message.get('from', 'unknown@unknown.com') as the key of stats['senders'];
\* a raw 8-bit header comes back as an email.header.Header, which is unhashable
SenderKey(msg) == IF msg.From = Absent THEN UnknownSender ELSE msg.From

Unhashable(msg) == msg.From # Absent /\ msg.raw8bit

RECURSIVE CountTypes(_, _)
CountTypes(by_type, paths) ==
    IF Len(paths) = 0 THEN by_type
    ELSE CountTypes(Incr(by_type, Lower(PathSuffix(Head(paths)[Len(Head(paths))]))), Tail(paths))

RECURSIVE SizeOf(_, _)
SizeOf(paths, fs) ==
    IF Len(paths) = 0 THEN 0
    ELSE (IF \E f \in fs : f.path = Head(paths)
          THEN Len((CHOOSE f \in fs : f.path = Head(paths)).data) ELSE 0)
         + SizeOf(Tail(paths), fs)

\* a counting step without the guard of line 165
CountedUnguarded(st, msg, saved_paths, fs) ==
    [st EXCEPT !.processed_messages = @ + 1,
               !.senders = Incr(@, SenderKey(msg)),
               !.messages_with_attachments = @ + 1,
               !.saved_attachments = @ + Len(saved_paths),
               !.attachments_by_type = CountTypes(@, saved_paths),
               !.attachments_size_bytes = @ + SizeOf(saved_paths, fs)]

\* the statistics after lines 158-178 ran for a message without an exception
Counted(st, msg, saved_paths, fs) ==
    LET st1 == [st EXCEPT !.processed_messages = @ + 1,
                          !.senders = Incr(@, SenderKey(msg))]
    IN  IF Len(saved_paths) > 0
        THEN [st1 EXCEPT !.messages_with_attachments = @ + 1,
                         !.saved_attachments = @ + Len(saved_paths),
                         !.attachments_by_type = CountTypes(@, saved_paths),
                         !.attachments_size_bytes = @ + SizeOf(saved_paths, fs)]
        ELSE st1

(***************************************************************************)
(* file_utils: type sniffing and the promotion of staged files.            *)
(***************************************************************************)
\* magic.Magic(mime=True).from_file: the type sniffed from the content;
\* "error" when the sniffing raises
SniffMime(data) ==
    IF Len(data) = 0 THEN "error"
    ELSE IF data[1] = 37 THEN "application/pdf"
    ELSE IF data[1] = 104 THEN "text/plain"
    ELSE "application/x-unmapped"

\* mime_to_ext.get(mime_type, ''), the table of lines 113-131
MimeToExt(mime) ==
    CASE mime = "application/pdf" -> <<".", "p", "d", "f">>
      [] mime = "image/jpeg" -> <<".", "j", "p", "g">>
      [] mime = "image/png" -> <<".", "p", "n", "g">>
      [] mime = "image/gif" -> <<".", "g", "i", "f">>
      [] mime = "application/msword" -> <<".", "d", "o", "c">>
      [] mime = "application/vnd.openxmlformats-officedocument.wordprocessingml.document"
           -> <<".", "d", "o", "c", "x">>
      [] mime = "application/vnd.ms-excel" -> <<".", "x", "l", "s">>
      [] mime = "application/vnd.openxmlformats-officedocument.spreadsheetml.sheet"
           -> <<".", "x", "l", "s", "x">>
      [] mime = "application/vnd.ms-powerpoint" -> <<".", "p", "p", "t">>
      [] mime = "application/vnd.openxmlformats-officedocument.presentationml.presentation"
           -> <<".", "p", "p", "t", "x">>
      [] mime = "text/plain" -> <<".", "t", "x", "t">>
      [] mime = "text/csv" -> <<".", "c", "s", "v">>
      [] mime = "application/zip" -> <<".", "z", "i", "p">>
      [] mime = "application/x-rar-compressed" -> <<".", "r", "a", "r">>
      [] mime = "application/x-7z-compressed" -> <<".", "7", "z">>
      [] mime = "application/x-tar" -> <<".", "t", "a", "r">>
      [] mime = "application/gzip" -> <<".", "g", "z">>
      [] OTHER -> <<>>

\* a detection that reports the generic type for every type without an
\* extension
DetectGenericForUnmapped(sniffed) ==
    IF sniffed = "error" \/ MimeToExt(sniffed) = <<>>
    THEN [mime |-> "application/octet-stream", ext |-> <<>>]
    ELSE [mime |-> sniffed, ext |-> MimeToExt(sniffed)]

\* detect_file_type, lines 108-137, from what the sniffing gave ("error" when
\* it raised)
DetectFromSniff(sniffed) ==
    IF sniffed = "error"
    THEN [mime |-> "application/octet-stream", ext |-> <<>>]
    ELSE [mime |-> sniffed, ext |-> MimeToExt(sniffed)]

\* detect_file_type of a file with the content data
DetectFileType(data) == DetectFromSniff(SniffMime(data))

\* PurePath.stem of a file name
PathStem(name) == SubSeq(name, 1, Len(name) - Len(PathSuffix(name)))

\* the collision probe of process_extensionless_files
RECURSIVE ProbePromoted(_, _, _, _, _, _)
ProbePromoted(target_dir, stem, extension, new_path, counter, fs_ds) ==
    IF ExistsIn(new_path, fs_ds.files, fs_ds.dirs)
    THEN ProbePromoted(target_dir, stem, extension,
                       target_dir \o <<stem \o <<"_">> \o NumStr(counter) \o extension>>,
                       counter + 1, fs_ds)
    ELSE new_path

\* a pass that records the entry before it moves the file
PromoteOneRecordsFirst(filepath, st, bad_moves) ==
    LET name == filepath[Len(filepath)]
        data == (CHOOSE f \in st.files : f.path = filepath).data
        det == DetectFileType(data)
        target_dir == BaseDir \o <<Parent(filepath)[Len(Parent(filepath))]>>
        ds1 == st.dirs \cup Prefixes(target_dir)
        new_path == ProbePromoted(target_dir, PathStem(name), det.ext,
                                  target_dir \o <<name \o Lower(det.ext)>>, 1,
                                  [files |-> st.files, dirs |-> ds1])
        entry == [from |-> filepath, to |-> new_path]
    IN  IF ~\E f \in st.files : f.path = filepath THEN st
        ELSE IF Len(PathSuffix(name)) > 0 /\ Len(PathSuffix(name)) <= 6 THEN st
        ELSE IF Len(det.ext) = 0 THEN st
        ELSE IF MkdirFails(target_dir, st.files) THEN st
        ELSE IF filepath \in bad_moves
        THEN [st EXCEPT !.dirs = ds1, !.results = @ \cup {entry}]
        ELSE [files |-> {f \in st.files : f.path # filepath} \cup {File(new_path, data)},
              dirs |-> ds1,
              results |-> st.results \cup {entry}]

\* One pass of the loop of process_extensionless_files for filepath; st is
\* [files, dirs, results]; the move fails when filepath is in bad_moves
PromoteOne(filepath, st, bad_moves) ==
    LET name == filepath[Len(filepath)]
        data == (CHOOSE f \in st.files : f.path = filepath).data
        det == DetectFileType(data)
        target_dir == BaseDir \o <<Parent(filepath)[Len(Parent(filepath))]>>
        ds1 == st.dirs \cup Prefixes(target_dir)
        new_path == ProbePromoted(target_dir, PathStem(name), det.ext,
                                  target_dir \o <<name \o Lower(det.ext)>>, 1,
                                  [files |-> st.files, dirs |-> ds1])
    IN  IF ~\E f \in st.files : f.path = filepath THEN st
        ELSE IF Len(PathSuffix(name)) > 0 /\ Len(PathSuffix(name)) <= 6 THEN st
        ELSE IF Len(det.ext) = 0 THEN st
        ELSE IF MkdirFails(target_dir, st.files) THEN st
        ELSE IF filepath \in bad_moves THEN [st EXCEPT !.dirs = ds1]
        ELSE [files |-> {f \in st.files : f.path # filepath} \cup {File(new_path, data)},
              dirs |-> ds1,
              results |-> st.results \cup {[from |-> filepath, to |-> new_path]}]

\* process_extensionless_files(temp_dir, attachments_dir), the entries of
\* temp_dir.glob('**/*') taken in the given order
RECURSIVE PromoteAll(_, _, _)
PromoteAll(order, st, bad_moves) ==
    IF Len(order) = 0 THEN st
    ELSE PromoteAll(Tail(order), PromoteOne(Head(order), st, bad_moves), bad_moves)

\* the orders in which a glob may hand out a set of paths
Orders(S) == {o \in [1..Cardinality(S) -> S] : \A a, b \in 1..Cardinality(S) : a # b => o[a] # o[b]}

StagedEntries(fs, ds) ==
    {f.path : f \in {g \in fs : IsUnder(g.path, TempDir)}} \cup {d \in ds : IsUnder(d, TempDir)}

\* AttachmentHandler._cleanup_temp_dir: shutil.rmtree(temp_dir)
CleanupTemp(st) ==
    [st EXCEPT !.files = {f \in @ : ~IsUnder(f.path, TempDir)},
               !.dirs = {d \in @ : d # TempDir /\ ~IsUnder(d, TempDir)}]

\* process_extensionless_files(temp_dir, attachments_dir): nothing is done
\* when temp_dir does not exist
ProcessExtensionlessFiles(order, fs, ds, bad_moves) ==
    LET st0 == [files |-> fs, dirs |-> ds, results |-> {}]
    IN  IF TempDir \in ds THEN PromoteAll(order, st0, bad_moves) ELSE st0

\* a post-processing that removes the staging area whatever keep_temp says
PostProcessAlwaysCleans(post_process, keep_temp, order, fs, ds, bad_moves) ==
    IF ~post_process THEN [files |-> fs, dirs |-> ds, results |-> {}]
    ELSE CleanupTemp(ProcessExtensionlessFiles(order, fs, ds, bad_moves))

\* AttachmentHandler.post_process_attachments
PostProcess(post_process, keep_temp, order, fs, ds, bad_moves) ==
    LET st0 == [files |-> fs, dirs |-> ds, results |-> {}]
        st1 == ProcessExtensionlessFiles(order, fs, ds, bad_moves)
    IN  IF ~post_process THEN st0
        ELSE IF keep_temp THEN st1
        ELSE CleanupTemp(st1)

(***************************************************************************)
(* The run: cli.main and MboxProcessor.process.                            *)
(***************************************************************************)
Init ==
    /\ args \in Arguments
    /\ config = NoConfig
    /\ pc = "Main"
    /\ stats = InitStats
    /\ i = 0
    /\ cur = NoMessage
    /\ \E t \in InitialTrees : files = t.files /\ dirs = t.dirs /\ old_files = t.files
    /\ pending = "none"
    /\ proc_result = "none"
    /\ exit_code = -1
    /\ constructed = FALSE
    /\ written = {}
    /\ save_count = 0
    /\ extracted = 0
    /\ clobbered = {}
    /\ fin_count = 0
    /\ promoted = <<>>
    /\ log = NoLog
    /\ cp_in = MalformedMessage
    /\ cp_out = NoResult
    /\ cp_pc = "idle"
    /\ cp_seen = 0
    /\ att_in = NoAttachment
    /\ att_out = NoOutcome
    /\ detected = NoDetection
    /\ writers = NoWriters

\* a handler of the message loop that counts the failure only without verbose
MessageFailedQuietOnly(st, verbose) ==
    [stats |-> IF verbose THEN st ELSE [st EXCEPT !.failed_messages = @ + 1],
     log |-> [level |-> "error", exc_info |-> verbose]]

\* process, lines 193-196: the handler of the message loop; the message is
\* counted as failed and logged, with the traceback when verbose is set
\* (_process_message logs the same way at lines 261-264 before it re-raises)
MessageFailed(st, verbose) ==
    [stats |-> [st EXCEPT !.failed_messages = @ + 1],
     log |-> [level |-> "error", exc_info |-> verbose]]

\* process, lines 198-201: the handler of the try block; the error is logged,
\* with the traceback when verbose is set, and raised again
FatalError(verbose) ==
    [pending |-> "Exception", log |-> [level |-> "critical", exc_info |-> verbose]]

\* cli.main, lines 95-107, when validation fails: return 1
MainConfigError ==
    /\ pc = "Main"
    /\ Validate(ConfigOf(args), args.input_exists) # "none"
    /\ config' = ConfigOf(args)
    /\ exit_code' = 1
    /\ pc' = "Exited"
    /\ UNCHANGED <<args, stats, i, cur, files, dirs, pending, proc_result, constructed,
                   written, save_count, extracted, clobbered, old_files, fin_count, promoted, log, raceVars, cpVars, unitVars>>

\* cli.main, lines 95-110, when validation passes: MboxProcessor(config), whose
\* constructors create the attachment root and, with post_process, the staging
\* area
MainConstruct ==
    /\ pc = "Main"
    /\ Validate(ConfigOf(args), args.input_exists) = "none"
    /\ config' = ConfigOf(args)
    /\ constructed' = TRUE
    /\ dirs' = dirs \cup Prefixes(BaseDir)
                    \cup (IF ConfigOf(args).post_process THEN {TempDir} ELSE {})
    /\ pc' = "Open"
    /\ UNCHANGED <<args, stats, i, cur, files, pending, proc_result, exit_code,
                   written, save_count, extracted, clobbered, old_files, fin_count, promoted, log, raceVars, cpVars, unitVars>>

\* process, lines 138-147: the mailbox opens
OpenMailbox ==
    /\ pc = "Open"
    /\ args.mbox_readable
    /\ stats' = [InitStats EXCEPT !.total_messages = args.total]
    /\ pc' = "LoopHead"
    /\ UNCHANGED <<args, config, i, cur, files, dirs, pending, proc_result, exit_code,
                   constructed, written, save_count, extracted, clobbered, old_files, fin_count, promoted, log, raceVars, cpVars, unitVars>>

\* process, lines 142 and 198-201: opening the mailbox raises
OpenFails ==
    /\ pc = "Open"
    /\ ~args.mbox_readable
    /\ stats' = InitStats
    /\ pending' = FatalError(config.verbose).pending
    /\ log' = FatalError(config.verbose).log
    /\ pc' = "Finalizing"
    /\ UNCHANGED <<args, config, i, cur, files, dirs, proc_result, exit_code,
                   constructed, written, save_count, extracted, clobbered, old_files, fin_count, promoted, raceVars, cpVars, unitVars>>

\* process, line 149: the iteration is exhausted
LoopEnd ==
    /\ pc = "LoopHead"
    /\ i = stats.total_messages
    /\ pc' = "Finalizing"
    /\ UNCHANGED <<args, config, stats, i, cur, files, dirs, pending, proc_result,
                   exit_code, constructed, written, save_count, extracted, clobbered, old_files, fin_count, promoted, log, raceVars, cpVars, unitVars>>

\* process, lines 150-153: the ceiling is reached
CeilingBreak ==
    /\ pc = "LoopHead"
    /\ i < stats.total_messages
    /\ config.max_messages # 0 /\ i >= config.max_messages
    /\ pc' = "Finalizing"
    /\ UNCHANGED <<args, config, stats, i, cur, files, dirs, pending, proc_result,
                   exit_code, constructed, written, save_count, extracted, clobbered, old_files, fin_count, promoted, log, raceVars, cpVars, unitVars>>

\* process, line 149 and lines 198-201: reading the next message raises
IterationFails ==
    /\ pc = "LoopHead"
    /\ i < stats.total_messages
    /\ ~(config.max_messages # 0 /\ i >= config.max_messages)
    /\ pending' = FatalError(config.verbose).pending
    /\ log' = FatalError(config.verbose).log
    /\ pc' = "Finalizing"
    /\ UNCHANGED <<args, config, stats, i, cur, files, dirs, proc_result,
                   exit_code, constructed, written, save_count, extracted, clobbered, old_files, fin_count, promoted, raceVars, cpVars, unitVars>>

\* _process_message, lines 239-251, up to the call of save_attachments; a
\* message that fails to parse raises, and process counts it (lines 193-196)
NextMessage ==
    /\ pc = "LoopHead"
    /\ i < stats.total_messages
    /\ ~(config.max_messages # 0 /\ i >= config.max_messages)
    /\ \E msg \in Messages :
         IF msg.malformed
         THEN /\ stats' = MessageFailed(stats, config.verbose).stats
              /\ log' = MessageFailed(stats, config.verbose).log
              /\ i' = i + 1
              /\ cur' = NoMessage
              /\ pc' = "LoopHead"
         ELSE LET parsed == ProcessMessage(msg)
              IN  /\ cur' = [msg |-> msg, from_addr |-> parsed.from_addr,
                             atts |-> parsed.attachments, k |-> 1,
                             saved_paths |-> <<>>, save_failures |-> 0]
                  /\ pc' = IF Len(parsed.attachments) > 0 THEN "Saving" ELSE "Counting"
                  /\ UNCHANGED <<stats, i, log>>
    /\ UNCHANGED <<args, config, files, dirs, pending, proc_result, exit_code,
                   constructed, written, save_count, extracted, clobbered, old_files, fin_count, promoted, raceVars, cpVars, unitVars>>

\* a loop that a failed save leaves
AbortOnFailure(k, n, raised) == IF raised \/ k = n THEN "Counting" ELSE "Saving"

\* where save_attachments goes after the pass for attachment k of n: the
\* except branch ends in "continue", so a failed save goes on like a good one
AfterSave(k, n, raised) == IF k = n THEN "Counting" ELSE "Saving"

\* save_attachments, lines 68-89: one attachment
SaveAttachment ==
    /\ pc = "Saving"
    /\ \E rnd \in RandomSuffixes, io \in IoOutcomes :
         LET r == SaveOne(cur.atts[cur.k], cur.from_addr, config.post_process,
                          rnd, io, files, dirs)
         IN  /\ files' = r.files
             /\ dirs' = r.dirs
             /\ cur' = [cur EXCEPT !.k = @ + 1,
                                   !.saved_paths = IF r.raised THEN @ ELSE Append(@, r.path),
                                   !.save_failures = IF r.raised THEN @ + 1 ELSE @]
             /\ written' = IF r.raised THEN written ELSE written \cup {r.path}
             /\ save_count' = IF r.raised THEN save_count ELSE save_count + 1
             /\ clobbered' = IF ~r.raised /\ (ExistsIn(r.path, files, dirs) \/ r.path \in written)
                             THEN clobbered \cup {r.path} ELSE clobbered
             /\ pc' = AfterSave(cur.k, Len(cur.atts), r.raised)
    /\ UNCHANGED <<args, config, stats, i, pending, proc_result, exit_code,
                   constructed, extracted, old_files, fin_count, promoted, log, raceVars,
                   cpVars, unitVars>>

\* process, lines 158-196: the message is counted; an unhashable sender key
\* raises at line 162 and the message is counted as failed as well
CountMessage ==
    /\ pc = "Counting"
    /\ stats' = IF Unhashable(cur.msg)
                THEN MessageFailed([stats EXCEPT !.processed_messages = @ + 1],
                                   config.verbose).stats
                ELSE Counted(stats, cur.msg, cur.saved_paths, files)
    /\ log' = IF Unhashable(cur.msg)
              THEN MessageFailed(stats, config.verbose).log
              ELSE log
    /\ extracted' = extracted + Len(cur.atts)
    /\ i' = i + 1
    /\ cur' = NoMessage
    /\ pc' = "LoopHead"
    /\ UNCHANGED <<args, config, files, dirs, pending, proc_result, exit_code,
                   constructed, written, save_count, clobbered, old_files, fin_count, promoted, raceVars, cpVars, unitVars>>

\* a KeyboardInterrupt while the try block of process runs: no handler of the
\* loop catches it, the finally block runs with it in flight
Interrupt ==
    /\ pc \in {"Open", "LoopHead", "Saving", "Counting"}
    /\ pending' = "KeyboardInterrupt"
    /\ pc' = "Finalizing"
    /\ UNCHANGED <<args, config, stats, i, cur, files, dirs, proc_result, exit_code,
                   constructed, written, save_count, extracted, clobbered, old_files, fin_count, promoted, log, raceVars, cpVars, unitVars>>

\* how process() ends once its finally block has run with the exception exc
\* in flight: the block ends in "return stats", which discards the exception
ProcessOutcome(exc) == "returned"

\* cli.main, lines 111-127: the exit code, from how process() ended
ExitCode(result) == IF result = "returned" THEN 0 ELSE 1

\* a finally block that leaves the post-processing count alone
FinalStatsNoCount(st, post_process, processed) ==
    [st EXCEPT !.end_time = TRUE, !.duration_seconds = TRUE]

\* process, lines 205-215: the statistics the finally block completes;
\* processed is the mapping post_process_attachments returned
FinalStats(st, post_process, processed) ==
    [st EXCEPT !.end_time = TRUE,
               !.duration_seconds = TRUE,
               !.post_processed = IF post_process THEN Cardinality(processed) ELSE @]

\* process, lines 203-227: the finally block, and the return of main
Finalize ==
    /\ pc = "Finalizing"
    /\ \E order \in Orders(StagedEntries(files, dirs)),
          bad_moves \in SUBSET {f.path : f \in {g \in files : IsUnder(g.path, TempDir)}} :
         LET r == PostProcess(config.post_process, config.keep_temp, order,
                              files, dirs, bad_moves)
         IN  /\ files' = r.files
             /\ dirs' = r.dirs
             /\ stats' = FinalStats(stats, config.post_process, r.results)
             /\ promoted' = IF config.post_process THEN Append(promoted, r.results)
                             ELSE promoted
    /\ fin_count' = fin_count + 1
    /\ proc_result' = ProcessOutcome(pending)
    /\ exit_code' = ExitCode(ProcessOutcome(pending))
    /\ pc' = "Exited"
    /\ UNCHANGED <<args, config, i, cur, pending, constructed,
                   written, save_count, extracted, clobbered, old_files, log, raceVars, cpVars, unitVars>>

\* a KeyboardInterrupt while the finally block runs leaves process(), and main
\* returns from its handler (lines 122-124)
FinalizeInterrupted ==
    /\ pc = "Finalizing"
    /\ pending' = "KeyboardInterrupt"
    /\ proc_result' = "raised"
    /\ exit_code' = ExitCode("raised")
    /\ pc' = "Exited"
    /\ UNCHANGED <<args, config, stats, i, cur, files, dirs, constructed,
                   written, save_count, extracted, clobbered, old_files, fin_count, promoted, log, raceVars, cpVars, unitVars>>

Next ==
    \/ MainConfigError
    \/ MainConstruct
    \/ OpenMailbox
    \/ OpenFails
    \/ LoopEnd
    \/ CeilingBreak
    \/ IterationFails
    \/ NextMessage
    \/ SaveAttachment
    \/ CountMessage
    \/ Interrupt
    \/ Finalize
    \/ FinalizeInterrupted

Spec == Init /\ [][Next]_vars

(***************************************************************************)
(* Content extraction on its own: process_message applied to every part    *)
(* tree of a bounded family.                                               *)
(***************************************************************************)
MaxParts == 2

HiBytes == <<104, 105>>
TaggedBytes == <<60, 98, 62, 104>>
BogusCharset == <<"x", "-", "b", "o", "g", "u", "s">>

ContentLeaves ==
    {Leaf(t, d, Absent, c, b) :
        t \in {"text/plain", "text/html", "application/pdf"},
        d \in {"none", "attachment"},
        c \in {Absent, BogusCharset},
        b \in {<<>>, HiBytes}}
    \cup {Leaf("application/pdf", "inline", PdfName, Absent, PdfBytes),
          Leaf("text/html", "none", Absent, Absent, TaggedBytes)}

ContentChildren ==
    ContentLeaves \cup
    {Multipart(<<l>>) :
        l \in {Leaf("text/plain", "none", Absent, Absent, HiBytes),
               Leaf("application/pdf", "attachment", Absent, Absent, HiBytes)}}

ContentTrees ==
    ContentLeaves \cup {Multipart(ps) : ps \in SeqUpTo(ContentChildren, MaxParts)}

InitContent ==
    /\ args = [input_exists |-> TRUE, mbox_readable |-> TRUE, total |-> 0,
               max_messages |-> 0, post_process |-> FALSE, keep_temp |-> FALSE,
               verbose |-> FALSE]
    /\ config = NoConfig
    /\ pc = "Content"
    /\ stats = InitStats
    /\ i = 0
    /\ cur = NoMessage
    /\ files = {} /\ dirs = {} /\ old_files = {}
    /\ pending = "none"
    /\ proc_result = "none"
    /\ exit_code = -1
    /\ constructed = FALSE
    /\ written = {}
    /\ save_count = 0
    /\ extracted = 0
    /\ clobbered = {}
    /\ fin_count = 0
    /\ promoted = <<>>
    /\ log = NoLog
    /\ \E root \in ContentTrees, from \in {Absent, Addr} :
         cp_in = Message(from, FALSE, FALSE, root)
    /\ cp_out = NoResult
    /\ cp_pc = "input"
    /\ cp_seen = 0
    /\ att_in = NoAttachment
    /\ att_out = NoOutcome
    /\ detected = NoDetection
    /\ writers = NoWriters

\* ContentProcessor.process_message
ProcessContent ==
    /\ cp_pc = "input"
    /\ cp_out' = ProcessMessage(cp_in)
    /\ cp_pc' = "done"
    /\ UNCHANGED <<cp_in, cp_seen, pipeVars, unitVars, raceVars>>

\* the messages given to the same ContentProcessor after the first one
LaterTrees ==
    {Multipart(<<l>>) :
        l \in {Leaf("application/pdf", "attachment", Absent, Absent, HiBytes),
               Leaf("text/plain", "none", Absent, Absent, HiBytes)}}

\* ContentProcessor.process_message, called again on the same object: the
\* accumulators are lists created by the call (lines 78-83)
ProcessAgain ==
    /\ cp_pc = "done"
    /\ \E root \in LaterTrees :
         /\ cp_in' = Message(Addr, FALSE, FALSE, root)
         /\ cp_out' = ProcessMessage(Message(Addr, FALSE, FALSE, root))
    /\ cp_seen' = cp_seen + Len(cp_out.attachments)
    /\ cp_pc' = "again"
    /\ UNCHANGED <<pipeVars, unitVars, raceVars>>

NextContent == ProcessContent \/ ProcessAgain

SpecContent == InitContent /\ [][NextContent]_vars

(***************************************************************************)
(* The Attachment object on its own: safe_filename and save applied to     *)
(* every object of a bounded family, in a directory where some of the      *)
(* candidate names are taken.                                              *)
(***************************************************************************)
MaxOccupied == 2

LateDate == [y |-> 2025, m |-> 12, d |-> 31]
UpperPdfName == <<"a", ".", "P", "D", "F">>
NamedAddr == <<"J", " ", "<", "a", "@", "b", ".", "c", ">">>
PlusAddr == <<"a", "+", "d", "@", "b", ".", "c">>
LocalOnly == <<"a", "b">>

UnitSenders == {Absent, <<>>, Addr, BracketAddr, NamedAddr, PlusAddr, LocalOnly}

UnitAttachments ==
    [filename : {PdfName, ReadmeName, UpperPdfName, <<>>},
     payload : {PdfBytes},
     email_date : {NoDate, MessageDate, LateDate},
     sender_email : UnitSenders,
     saved_path : {Absent}]

\* the directory the object is saved to: the one get_attachment_dir gives
\* for its sender, the attachment root when it has none
UnitDir(a) ==
    IF a.sender_email # Absent /\ Len(a.sender_email) > 0
    THEN AttachmentDir(a.sender_email) ELSE BaseDir

\* the c-th path the collision probe looks at
Candidate(a, save_dir, rnd, c) ==
    LET filename == FormatName(a.email_date, a.sender_email, a.filename, rnd)
    IN  PathJoin(save_dir, IF c = 0 THEN filename ELSE ProbeName(filename, c))

InitAttachment ==
    /\ args = [input_exists |-> TRUE, mbox_readable |-> TRUE, total |-> 0,
               max_messages |-> 0, post_process |-> FALSE, keep_temp |-> FALSE,
               verbose |-> FALSE]
    /\ config = NoConfig
    /\ pc = "Attachment"
    /\ stats = InitStats
    /\ i = 0
    /\ cur = NoMessage
    /\ att_in \in UnitAttachments
    /\ \E occupied \in SUBSET (0..MaxOccupied), rnd \in RandomSuffixes :
         /\ files = {File(Candidate(att_in, UnitDir(att_in), rnd, c), <<98>>) : c \in occupied}
         /\ dirs = IF occupied = {} THEN {} ELSE Prefixes(UnitDir(att_in))
    /\ old_files = files
    /\ pending = "none"
    /\ proc_result = "none"
    /\ exit_code = -1
    /\ constructed = FALSE
    /\ written = {}
    /\ save_count = 0
    /\ extracted = 0
    /\ clobbered = {}
    /\ fin_count = 0
    /\ promoted = <<>>
    /\ log = NoLog
    /\ cp_in = MalformedMessage
    /\ cp_out = NoResult
    /\ cp_pc = "idle"
    /\ cp_seen = 0
    /\ att_out = NoOutcome
    /\ detected = NoDetection
    /\ writers = NoWriters

\* reading the property Attachment.safe_filename
DeriveName ==
    /\ pc = "Attachment"
    /\ \E rnd \in RandomSuffixes :
         LET r == AttachmentSafeFilename(att_in, rnd)
         IN  att_out' = [op |-> "safe_filename", raised |-> r.raised, error |-> r.error,
                         name |-> r.name, path |-> <<>>, rnd |-> rnd, save_dir |-> <<>>]
    /\ pc' = "AttachmentDone"
    /\ UNCHANGED <<args, config, stats, i, cur, files, dirs, pending, proc_result,
                   exit_code, constructed, written, save_count, extracted, clobbered, old_files,
                   fin_count, promoted, log, raceVars, cpVars, att_in, detected>>

\* Attachment.save(save_dir)
SaveDirect ==
    /\ pc = "Attachment"
    /\ \E rnd \in RandomSuffixes, io \in IoOutcomes :
         LET r == AttachmentSave(att_in, UnitDir(att_in), rnd, io, files, dirs)
         IN  /\ files' = r.files
             /\ dirs' = r.dirs
             /\ att_in' = [att_in EXCEPT !.saved_path = r.saved_path]
             /\ att_out' = [op |-> "save", raised |-> r.raised, error |-> r.error,
                             name |-> <<>>, path |-> r.path, rnd |-> rnd,
                             save_dir |-> UnitDir(att_in)]
    /\ pc' = "AttachmentDone"
    /\ UNCHANGED <<args, config, stats, i, cur, pending, proc_result,
                   exit_code, constructed, written, save_count, extracted, clobbered, old_files,
                   fin_count, promoted, log, raceVars, cpVars, detected>>

NextAttachment == DeriveName \/ SaveDirect

SpecAttachment == InitAttachment /\ [][NextAttachment]_vars

(***************************************************************************)
(* file_utils and the post-processing on their own: detect_file_type,      *)
(* process_extensionless_files and post_process_attachments applied to     *)
(* every staging area of a bounded family.                                 *)
(***************************************************************************)
MaxStaged == 2
MaxTaken == 1

\* what the sniffing of a file can give: a type of the table, a type that is
\* not in it, or an exception
MappedTypes ==
    {"application/pdf", "image/jpeg", "image/png", "image/gif", "application/msword",
     "application/vnd.openxmlformats-officedocument.wordprocessingml.document",
     "application/vnd.ms-excel",
     "application/vnd.openxmlformats-officedocument.spreadsheetml.sheet",
     "application/vnd.ms-powerpoint",
     "application/vnd.openxmlformats-officedocument.presentationml.presentation",
     "text/plain", "text/csv", "application/zip", "application/x-rar-compressed",
     "application/x-7z-compressed", "application/x-tar", "application/gzip"}

SniffResults == MappedTypes \cup {"application/x-unmapped", "inode/x-empty", "error"}

\* the files a staging area may hold: content that sniffs as a mapped type,
\* as an unmapped type, content whose sniffing raises, a file at the root of
\* the staging area, a file that has a suffix, and a file one level deeper
StagedChoices ==
    {File(StagedFile, PdfBytes),
     File(TempDir \o <<BucketName(Addr), <<"e">> >>, HiBytes),
     File(TempDir \o <<BucketName(Addr), <<"u">> >>, <<98>>),
     File(TempDir \o <<BucketName(Addr), <<"z">> >>, <<>>),
     File(StagedAtRoot, PdfBytes),
     File(TempDir \o <<BucketName(Addr), <<"h", ".", "p", "d", "f">> >>, PdfBytes),
     File(TempDir \o << <<"x">>, BucketName(Addr), <<"f">> >>, PdfBytes)}

\* the c-th name the promotion of StagedFile looks at
PromotedCandidate(c) ==
    AttachmentDir(Addr)
        \o <<IF c = 0 THEN <<"f", ".", "p", "d", "f">>
              ELSE <<"f", "_">> \o NumStr(c) \o <<".", "p", "d", "f">> >>

InitFiles ==
    /\ args = [input_exists |-> TRUE, mbox_readable |-> TRUE, total |-> 0,
               max_messages |-> 0, post_process |-> TRUE, keep_temp |-> FALSE,
               verbose |-> FALSE]
    /\ config \in [max_messages : {0}, post_process : BOOLEAN, keep_temp : BOOLEAN,
                    verbose : {FALSE}]
    /\ pc = "Files"
    /\ stats = InitStats
    /\ i = 0
    /\ cur = NoMessage
    /\ \E staged \in {S \in SUBSET StagedChoices : Cardinality(S) <= MaxStaged},
          taken \in SUBSET (0..MaxTaken) :
         /\ files = staged \cup {File(PromotedCandidate(c), <<98>>) : c \in taken}
         /\ dirs = Prefixes(TempDir)
                      \cup UNION {Prefixes(Parent(f.path)) : f \in staged}
                      \cup (IF taken = {} THEN {} ELSE Prefixes(AttachmentDir(Addr)))
    /\ old_files = files
    /\ pending = "none"
    /\ proc_result = "none"
    /\ exit_code = -1
    /\ constructed = FALSE
    /\ written = {}
    /\ save_count = 0
    /\ extracted = 0
    /\ clobbered = {}
    /\ fin_count = 0
    /\ promoted = <<>>
    /\ log = NoLog
    /\ cp_in = MalformedMessage
    /\ cp_out = NoResult
    /\ cp_pc = "idle"
    /\ cp_seen = 0
    /\ att_in = NoAttachment
    /\ att_out = NoOutcome
    /\ detected = NoDetection
    /\ writers = NoWriters

\* detect_file_type(filepath) for a file whose sniffing gives sniffed
DetectType ==
    /\ pc = "Files"
    /\ \E sniffed \in SniffResults :
         detected' = [data |-> sniffed, mime |-> DetectFromSniff(sniffed).mime,
                      ext |-> DetectFromSniff(sniffed).ext]
    /\ pc' = "Detected"
    /\ UNCHANGED <<args, config, stats, i, cur, files, dirs, pending, proc_result,
                   exit_code, constructed, written, save_count, extracted, clobbered, old_files,
                   fin_count, promoted, log, raceVars, cpVars, att_in, att_out>>

\* process_extensionless_files(temp_dir, attachments_dir)
RunPromotion ==
    /\ pc = "Files"
    /\ \E order \in Orders(StagedEntries(files, dirs)),
          bad_moves \in SUBSET {f.path : f \in {g \in files : IsUnder(g.path, TempDir)}} :
         LET r == ProcessExtensionlessFiles(order, files, dirs, bad_moves)
         IN  /\ files' = r.files
             /\ dirs' = r.dirs
             /\ promoted' = <<r.results>>
    /\ pc' = "Promoted"
    /\ UNCHANGED <<args, config, stats, i, cur, pending, proc_result,
                   exit_code, constructed, written, save_count, extracted, clobbered, old_files,
                   fin_count, log, raceVars, cpVars, unitVars>>

\* AttachmentHandler.post_process_attachments()
RunPostProcess ==
    /\ pc = "Files"
    /\ \E order \in Orders(StagedEntries(files, dirs)),
          bad_moves \in SUBSET {f.path : f \in {g \in files : IsUnder(g.path, TempDir)}} :
         LET r == PostProcess(config.post_process, config.keep_temp, order,
                              files, dirs, bad_moves)
         IN  /\ files' = r.files
             /\ dirs' = r.dirs
             /\ promoted' = <<r.results>>
    /\ pc' = "PostProcessed"
    /\ UNCHANGED <<args, config, stats, i, cur, pending, proc_result,
                   exit_code, constructed, written, save_count, extracted, clobbered, old_files,
                   fin_count, log, raceVars, cpVars, unitVars>>

NextFiles == DetectType \/ RunPromotion \/ RunPostProcess

SpecFiles == InitFiles /\ [][NextFiles]_vars

(***************************************************************************)
(* Attachment.save called by concurrent writers on one directory.  The     *)
(* method is not atomic: the existence check of the while loop and the     *)
(* open() that creates the file are separate system calls, and another     *)
(* writer may run between them.                                            *)
(***************************************************************************)
Writers == {1, 2}

\* the payload each writer saves
WriterPayload(w) == IF w = 1 THEN PdfBytes ELSE <<98>>

\* a writer before its call: an attachment of the sender Addr named a.pdf
IdleWriter(w) ==
    [pc |-> "start", save_dir |-> AttachmentDir(Addr), filename |-> <<>>,
     filepath |-> <<>>, counter |-> 0, payload |-> WriterPayload(w), seen |-> {}]

\* a loop test that never finds the path taken
ProbeStepBlind(save_dir, filename, filepath, counter, fs, ds) ==
    [pc |-> "write", filepath |-> filepath, counter |-> counter]

\* Attachment.save, lines 128-138: one test of the while loop, and the body
\* when the path exists
ProbeStep(save_dir, filename, filepath, counter, fs, ds) ==
    IF ExistsIn(filepath, fs, ds)
    THEN [pc |-> "probe", filepath |-> PathJoin(save_dir, ProbeName(filename, counter)),
          counter |-> counter + 1]
    ELSE [pc |-> "write", filepath |-> filepath, counter |-> counter]

InitRace ==
    /\ args = [input_exists |-> TRUE, mbox_readable |-> TRUE, total |-> 0,
               max_messages |-> 0, post_process |-> FALSE, keep_temp |-> FALSE,
               verbose |-> FALSE]
    /\ config = NoConfig
    /\ pc = "Race"
    /\ stats = InitStats
    /\ i = 0
    /\ cur = NoMessage
    /\ \E occupied \in SUBSET (0..MaxOccupied), rnd \in RandomSuffixes :
         /\ files = {File(PathJoin(AttachmentDir(Addr),
                                   IF c = 0 THEN SafeFilename(Addr, PdfName, rnd)
                                   ELSE ProbeName(SafeFilename(Addr, PdfName, rnd), c)),
                          <<104>>) : c \in occupied}
         /\ dirs = IF occupied = {} THEN {} ELSE Prefixes(AttachmentDir(Addr))
    /\ old_files = files
    /\ pending = "none"
    /\ proc_result = "none"
    /\ exit_code = -1
    /\ constructed = FALSE
    /\ written = {}
    /\ save_count = 0
    /\ extracted = 0
    /\ clobbered = {}
    /\ fin_count = 0
    /\ promoted = <<>>
    /\ log = NoLog
    /\ cp_in = MalformedMessage
    /\ cp_out = NoResult
    /\ cp_pc = "idle"
    /\ cp_seen = 0
    /\ att_in = NoAttachment
    /\ att_out = NoOutcome
    /\ detected = NoDetection
    /\ writers = [w \in Writers |-> IdleWriter(w)]

\* Attachment.save, lines 117-126: the precondition holds, the directory is
\* made, the name is generated and the first candidate is formed
WriterBegin(w) ==
    /\ pc = "Race"
    /\ writers[w].pc = "start"
    /\ \E rnd \in RandomSuffixes :
         writers' = [writers EXCEPT ![w] =
                        [@ EXCEPT !.pc = "probe",
                                  !.filename = SafeFilename(Addr, PdfName, rnd),
                                  !.filepath = PathJoin(writers[w].save_dir,
                                                        SafeFilename(Addr, PdfName, rnd)),
                                  !.counter = 1]]
    /\ dirs' = dirs \cup Prefixes(writers[w].save_dir)
    /\ UNCHANGED <<args, config, pc, stats, i, cur, files, pending, proc_result,
                   exit_code, constructed, written, save_count, extracted, clobbered, old_files,
                   fin_count, promoted, log, cpVars, unitVars>>

\* Attachment.save, lines 129-138: one test of filepath.exists()
WriterProbe(w) ==
    /\ pc = "Race"
    /\ writers[w].pc = "probe"
    /\ LET me == writers[w]
           r == ProbeStep(me.save_dir, me.filename, me.filepath, me.counter, files, dirs)
       IN  writers' = [writers EXCEPT ![w] =
                          [@ EXCEPT !.pc = r.pc, !.filepath = r.filepath,
                                    !.counter = r.counter,
                                    !.seen = {f.path : f \in files}]]
    /\ UNCHANGED <<args, config, pc, stats, i, cur, files, dirs, pending, proc_result,
                   exit_code, constructed, written, save_count, extracted, clobbered, old_files,
                   fin_count, promoted, log, cpVars, unitVars>>

\* Attachment.save, lines 141-145: open(filepath, 'wb') creates or truncates
\* the file, the payload is written and the path is returned
WriterWrite(w) ==
    /\ pc = "Race"
    /\ writers[w].pc = "write"
    /\ files' = WriteFile(files, writers[w].filepath, writers[w].payload)
    /\ writers' = [writers EXCEPT ![w] = [@ EXCEPT !.pc = "done"]]
    /\ written' = written \cup {writers[w].filepath}
    /\ save_count' = save_count + 1
    /\ clobbered' = IF ExistsIn(writers[w].filepath, files, dirs)
                    THEN clobbered \cup {writers[w].filepath} ELSE clobbered
    /\ UNCHANGED <<args, config, pc, stats, i, cur, dirs, pending, proc_result,
                   exit_code, constructed, extracted, old_files,
                   fin_count, promoted, log, cpVars, unitVars>>

NextRace == \E w \in Writers : WriterBegin(w) \/ WriterProbe(w) \/ WriterWrite(w)

SpecRace == InitRace /\ [][NextRace]_vars

(***************************************************************************)
(* Properties.                                                             *)
(***************************************************************************)
OldPaths == {f.path : f \in old_files}

\* the number of messages the loop of process() is to handle
Limit == IF config.max_messages > 0 THEN Min(config.max_messages, args.total) ELSE args.total

\* the run ended with nothing raised inside process()
CompletedRun == pc = "Exited" /\ constructed /\ pending = "none"

\* C1: no two attachments are written to the same final path: Attachment.save
\* never writes to a path that exists or that it returned before, so the paths
\* it returned are as many as its successful calls, and none of them is the
\* path of a file that was there when the run started.
C1_SavedPathsUnique ==
    /\ clobbered = {}
    /\ Cardinality(written) = save_count
    /\ written \cap OldPaths = {}

\* C1 witness: the candidate name was taken twice (by an older file and by an
\* earlier save), and three attachments of the run sit at three paths.
C1_Witness ==
    /\ save_count >= 3
    /\ OldFile \in OldPaths
    /\ AttachmentDir(Addr) \o <<ProbeName(SafeFilename(Addr, PdfName, RandLo), 2)>> \in written

\* C2: when opening the mailbox fails, or another exception escapes the
\* message loop, process() finalizes the statistics and then raises to its
\* caller; it does not return normally.
C2_FatalErrorPropagates ==
    (pc = "Exited" /\ pending = "Exception") => (stats.end_time /\ proc_result = "raised")

\* C3: main returns 0 only when nothing was raised while process() ran; a
\* KeyboardInterrupt or an uncaught error there makes it return 1.
C3_ExitCodeReflectsErrors ==
    (pc = "Exited" /\ constructed) => (exit_code = 0 <=> pending = "none")

\* C4: a step that counts a message as failed adds exactly one to
\* failed_messages, leaves processed_messages and the sender and attachment
\* counters as they were, and goes on to the next message.
C4_FailedMessageCounting ==
    [][stats'.failed_messages # stats.failed_messages =>
          /\ stats' = [stats EXCEPT !.failed_messages = @ + 1]
          /\ i' = i + 1
          /\ pc' = "LoopHead"]_vars

\* C5: with post_process enabled an attachment whose declared filename has no
\* plausible extension is written under the staging area temp/{bucket}; every
\* other attachment is written to the bucket directory.
C5_ExtensionlessGoesToStaging ==
    [][(pc = "Saving" /\ save_count' = save_count + 1) =>
          LET p == cur'.saved_paths[Len(cur'.saved_paths)]
          IN  Parent(p) = IF config.post_process /\ ~HasExtension(cur.atts[cur.k].filename)
                          THEN TempDir \o <<BucketName(cur.from_addr)>>
                          ELSE AttachmentDir(cur.from_addr)]_vars

\* C6: after a run that nothing interrupted, total_messages is the number of
\* messages in the mailbox, the loop handled the first min(ceiling, total)
\* messages (all of them with ceiling 0), and processed_messages plus
\* failed_messages is that number.
C6_CeilingCounts ==
    CompletedRun =>
        /\ stats.total_messages = args.total
        /\ i = Limit
        /\ stats.processed_messages + stats.failed_messages = Limit

C8_SavedCountMatchesWrites ==
    pc = "LoopHead" => stats.saved_attachments = save_count

\* does text t contain the text sub
Contains(t, sub) == \E k \in 1..(Len(t) - Len(sub) + 1) : SubSeq(t, k, k + Len(sub) - 1) = sub

\* the leaves of a part tree, in document order
RECURSIVE LeavesOf(_)
RECURSIVE LeavesOfParts(_)
LeavesOf(node) == IF node.multipart THEN LeavesOfParts(node.parts) ELSE <<node>>
LeavesOfParts(parts) ==
    IF Len(parts) = 0 THEN <<>> ELSE LeavesOf(Head(parts)) \o LeavesOfParts(Tail(parts))

\* a body leaf that yields text: no attachment disposition, a payload, a
\* charset that decodes, and a plain or markup type
YieldsText(leaf) ==
    /\ leaf.disp \notin {"attachment", "inline"}
    /\ Len(leaf.payload) > 0
    /\ (leaf.charset = Absent \/ leaf.charset \in KnownCharsets)
    /\ leaf.ctype \in {"text/plain", "text/html"}

\* C9: process_message returns "[No content]" only when no body leaf of the
\* tree yielded text, and the text body contains the decoded text of every
\* text/plain body leaf, the root of a non-multipart message included.
C9_PlainTextIsReturned ==
    cp_pc = "done" =>
        LET leaves == LeavesOf(cp_in.root)
        IN  /\ cp_out.text_content = NoContent =>
                 \A k \in 1..Len(leaves) : ~YieldsText(leaves[k])
            /\ \A k \in 1..Len(leaves) :
                 (YieldsText(leaves[k]) /\ leaves[k].ctype = "text/plain") =>
                     Contains(cp_out.text_content, DecodeBytes(leaves[k].payload))

\* C10: with a missing input file or a negative ceiling main returns 1 before
\* an MboxProcessor is constructed and before any message is processed.
C10_ConfigErrorsAreFatal ==
    (pc # "Main" /\ (~args.input_exists \/ args.max_messages < 0)) =>
        (pc = "Exited" /\ exit_code = 1 /\ ~constructed)

\* C11: the finally block of process() runs once, and only after the message
\* loop was left (exhausted, stopped at the ceiling, or left by an exception):
\* before that nothing is finalized; once process() has returned, end_time and
\* duration_seconds are set, post_process_attachments was called once when
\* post_process is enabled and never otherwise, and post_processed is the
\* number of entries of the mapping it returned.
C11_FinalizationRunsOnce ==
    /\ fin_count <= 1
    /\ pc \in {"Main", "Open", "LoopHead", "Saving", "Counting", "Finalizing"} =>
          /\ fin_count = 0
          /\ promoted = <<>>
          /\ ~stats.end_time /\ ~stats.duration_seconds
    /\ (pc = "Exited" /\ proc_result = "returned") =>
          /\ fin_count = 1
          /\ stats.end_time /\ stats.duration_seconds
          /\ Len(promoted) = IF config.post_process THEN 1 ELSE 0
          /\ config.post_process => stats.post_processed = Cardinality(promoted[1])

\* C11 witness: the mailbox failed to open, post-processing is enabled, and
\* the finally block promoted the one staged file it could name.
C11_Witness ==
    /\ pc = "Exited"
    /\ pending = "Exception"
    /\ config.post_process
    /\ fin_count = 1
    /\ stats.post_processed = 1
    /\ \E e \in promoted[1] : e.from = StagedFile

\* C12: a message without attachments goes from extraction straight to the
\* counting step (save_attachments is not entered), and neither of its two
\* steps creates a file or a directory or changes saved_attachments,
\* messages_with_attachments, attachments_by_type or attachments_size_bytes.
C12_NoAttachmentsNoEffect ==
    [][/\ (pc = "LoopHead" /\ pc' = "Counting") => Len(cur'.atts) = 0
       /\ (pc = "LoopHead" /\ pc' = "Saving") => Len(cur'.atts) > 0
       /\ (\/ (pc = "LoopHead" /\ pc' = "Counting")
           \/ (pc = "Counting" /\ Len(cur.atts) = 0 /\ pc' = "LoopHead")) =>
             /\ files' = files
             /\ dirs' = dirs
             /\ stats'.saved_attachments = stats.saved_attachments
             /\ stats'.messages_with_attachments = stats.messages_with_attachments
             /\ stats'.attachments_by_type = stats.attachments_by_type
             /\ stats'.attachments_size_bytes = stats.attachments_size_bytes]_vars

\* C12 witness: the first message, from a@b.c and without attachments, was
\* counted, and the sender has no directory.
C12_Witness ==
    /\ pc = "LoopHead"
    /\ i = 1
    /\ stats.processed_messages = 1
    /\ Count(stats.senders, Addr) = 1
    /\ AttachmentDir(Addr) \notin dirs
    /\ stats.messages_with_attachments = 0

\* C13: reading safe_filename or calling save on an Attachment whose
\* email_date or sender_email is not set raises ValueError at once: no name
\* and no path come back, no file or directory is created or changed, and
\* saved_path stays unset.
C13_UnsetContextFailsFast ==
    [][(/\ pc = "Attachment"
        /\ (att_in.email_date = NoDate \/ att_in.sender_email \in {Absent, <<>>})) =>
          /\ att_out'.raised
          /\ att_out'.error = "ValueError"
          /\ att_out'.name = <<>>
          /\ att_out'.path = <<>>
          /\ files' = files
          /\ dirs' = dirs
          /\ att_in'.saved_path = Absent]_vars

\* C13 witness: save was called on an attachment with a sender and no date,
\* in a directory that holds files, and raised.
C13_Witness ==
    /\ pc = "AttachmentDone"
    /\ att_out.op = "save"
    /\ att_in.sender_email = Addr
    /\ att_in.email_date = NoDate
    /\ att_out.raised
    /\ files # {}

\* C14: the name safe_filename gives is {YYYY-MM-DD}_{sanitized sender}_{5
\* digits}{extension}, the extension being the lower-cased suffix of the
\* declared filename, and nothing when the declared filename has no suffix.
C14_NameFormat ==
    (pc = "AttachmentDone" /\ att_out.op = "safe_filename" /\ ~att_out.raised) =>
        /\ Len(NumStr(att_out.rnd)) = 5
        /\ att_out.name =
               Strftime(att_in.email_date) \o <<"_">> \o SafeEmail(att_in.sender_email)
                   \o <<"_">> \o NumStr(att_out.rnd) \o Lower(PathSuffix(att_in.filename))

\* C15: the sanitized sender inside the generated name is the bucket directory
\* name of the same sender string: the name starts with the date, "_", the
\* bucket name, "_" and the five digits.
C15_NameCarriesBucket ==
    (pc = "AttachmentDone" /\ att_out.op = "safe_filename" /\ ~att_out.raised) =>
        LET head == Strftime(att_in.email_date) \o <<"_">>
                        \o BucketName(att_in.sender_email) \o <<"_">> \o NumStr(att_out.rnd)
        IN  /\ Len(att_out.name) >= Len(head)
            /\ SubSeq(att_out.name, 1, Len(head)) = head

\* a leaf that is captured as an attachment: an attachment or inline
\* disposition and a payload
Captured(leaf) == leaf.disp \in {"attachment", "inline"} /\ Len(leaf.payload) > 0

\* C16: the attachments of a message are its captured leaves in document
\* order; the k-th of them keeps its declared filename, and without one it is
\* named attachment_k, k - 1 being the number of attachments captured before
\* it in the same message, whatever earlier messages held.
C16_SyntheticNamesPerMessage ==
    cp_pc \in {"done", "again"} =>
        LET captured == SelectSeq(LeavesOf(cp_in.root), Captured)
        IN  /\ Len(cp_out.attachments) = Len(captured)
            /\ \A k \in 1..Len(captured) :
                 cp_out.attachments[k].filename =
                     IF captured[k].filename # Absent /\ Len(captured[k].filename) > 0
                     THEN captured[k].filename
                     ELSE <<"a", "t", "t", "a", "c", "h", "m", "e", "n", "t", "_">> \o NumStr(k)

\* C16 witness: a message whose only attachment has no filename is processed
\* after a message of which two attachments were captured, and the attachment
\* is named attachment_1.
C16_Witness ==
    /\ cp_pc = "again"
    /\ cp_seen = 2
    /\ Len(cp_out.attachments) = 1
    /\ cp_out.attachments[1].filename =
           <<"a", "t", "t", "a", "c", "h", "m", "e", "n", "t", "_", "1">>

\* the entries of a directory
Entries(dir, fs, ds) ==
    {f.path : f \in {g \in fs : Parent(g.path) = dir}} \cup {d \in ds : Parent(d) = dir}

\* C17: when save gets past its precondition and mkdir, the probe stops at the
\* c-th candidate for some c not above the number of entries of the
\* directory: every candidate before it exists and it does not.  If open()
\* succeeds the payload is written to that path and to no other, and that
\* path is returned and recorded in saved_path; if open() fails nothing is
\* written and saved_path stays unset.
C17_ProbeEndsOnFreePath ==
    [][(pc = "Attachment" /\ att_out'.op = "save" /\ att_out'.error # "ValueError") =>
          LET d == att_out'.save_dir
              n == Cardinality(Entries(d, files, dirs))
          IN  \E c \in 0..n :
                LET p == Candidate(att_in, d, att_out'.rnd, c)
                IN  /\ \A j \in 0..(c - 1) :
                         ExistsIn(Candidate(att_in, d, att_out'.rnd, j), files, dirs)
                    /\ ~ExistsIn(p, files, dirs)
                    /\ IF att_out'.raised
                       THEN /\ files' = files
                            /\ att_in'.saved_path = Absent
                       ELSE /\ att_out'.path = p
                            /\ att_in'.saved_path = p
                            /\ files' = files \cup {File(p, att_in.payload)}]_vars

\* C17 witness: the generated name and its first MaxOccupied numbered
\* variants were taken, and the attachment was saved under the next one.
C17_Witness ==
    /\ pc = "AttachmentDone"
    /\ att_out.op = "save"
    /\ ~att_out.raised
    /\ att_in.filename = PdfName
    /\ Cardinality(old_files) = MaxOccupied + 1
    /\ att_out.path = Candidate(att_in, att_out.save_dir, att_out.rnd, MaxOccupied + 1)
    /\ att_in.saved_path = att_out.path
    /\ File(att_out.path, PdfBytes) \in files

\* a staged file that promotion sniffs and for which the sniffing gives no
\* usable extension
Unsniffable(f) ==
    /\ IsUnder(f.path, TempDir)
    /\ ~(Len(PathSuffix(f.path[Len(f.path)])) > 0 /\ Len(PathSuffix(f.path[Len(f.path)])) <= 6)
    /\ DetectFileType(f.data).ext = <<>>

\* C18, as stated: after post_process_attachments returns, every staged file
\* for which sniffing yielded no usable extension still exists, unchanged, at
\* its original path in the staging area.
C18_UnsniffableAlwaysRemains ==
    pc = "PostProcessed" => \A f \in old_files : Unsniffable(f) => f \in files

\* C18, amended: after post_process_attachments returns with keep_temp set,
\* every staged file for which sniffing yielded no usable extension still
\* exists, unchanged, at its original path in the staging area.
C18_UnsniffableRemainsWhenKept ==
    (pc = "PostProcessed" /\ config.keep_temp)
        => \A f \in old_files : Unsniffable(f) => f \in files

C18_Witness ==
    /\ pc = "PostProcessed"
    /\ config.post_process
    /\ config.keep_temp
    /\ \E f \in old_files : Unsniffable(f) /\ f \in files /\ Len(f.data) > 0
    /\ \E e \in promoted[1] : e.from = StagedFile

\* C19: the mapping returned by process_extensionless_files contains exactly
\* the files that were moved: for each entry the original path no longer
\* holds the file, the new path holds it with its content unchanged, the new
\* path was unoccupied before (nothing is overwritten, and no two entries
\* share a new path), and every file without an entry is where it was, as it
\* was.
C19_MappingIsWhatMoved ==
    [][(pc = "Files" /\ pc' = "Promoted") =>
        LET results == promoted'[1]
        IN  /\ \A e \in results :
                  /\ \E f \in files : f.path = e.from /\ File(e.to, f.data) \in files'
                  /\ ~\E f \in files' : f.path = e.from
                  /\ ~ExistsIn(e.to, files, dirs)
                  /\ Cardinality({f \in files' : f.path = e.to}) = 1
            /\ \A e1, e2 \in results : e1.to = e2.to => e1 = e2
            /\ \A f \in files : (~\E e \in results : e.from = f.path) => f \in files'
            /\ \A f \in files' : f \in files \/ \E e \in results : e.to = f.path
            /\ Cardinality(files') = Cardinality(files)]_vars

C19_Witness ==
    /\ pc = "Promoted"
    /\ Cardinality(promoted[1]) = 1
    /\ \E e \in promoted[1] :
         /\ e.from \in {f.path : f \in old_files}
         /\ e.to = PromotedCandidate(MaxTaken + 1)
         /\ File(e.to, PdfBytes) \in files
    /\ File(PromotedCandidate(0), <<98>>) \in files
    /\ \E f \in old_files :
         /\ IsUnder(f.path, TempDir)
         /\ DetectFileType(f.data).ext # <<>>
         /\ PathSuffix(f.path[Len(f.path)]) = <<>>
         /\ f \in files

\* C20, as stated: detect_file_type returns ('application/octet-stream', '')
\* both when sniffing fails and when the sniffed type is not in the table,
\* and a non-empty extension only for mapped types.
C20_GenericWhenUnmapped ==
    pc = "Detected" =>
        /\ (detected.data = "error" \/ detected.data \notin MappedTypes)
              => detected.mime = "application/octet-stream" /\ detected.ext = <<>>
        /\ detected.ext # <<>> => detected.data \in MappedTypes

\* C20, amended: detect_file_type returns ('application/octet-stream', '')
\* when sniffing fails; when the sniffed type is not in the table it returns
\* the sniffed type with an empty extension; it returns a non-empty extension
\* only for mapped types.
C20_GenericWhenSniffFails ==
    pc = "Detected" =>
        /\ detected.data = "error"
              => detected.mime = "application/octet-stream" /\ detected.ext = <<>>
        /\ (detected.data # "error" /\ detected.data \notin MappedTypes)
              => detected.mime = detected.data /\ detected.ext = <<>>
        /\ detected.ext # <<>> => detected.data \in MappedTypes
        /\ detected.data \in MappedTypes
              => detected.mime = detected.data /\ detected.ext = MimeToExt(detected.data)
                   /\ detected.ext # <<>>

C20_Witness ==
    /\ pc = "Detected"
    /\ detected.data = "application/x-unmapped"
    /\ detected.mime = "application/x-unmapped"
    /\ detected.ext = <<>>

\* the arguments with the verbose flag the other way round
OtherVerbose(a) == [a EXCEPT !.verbose = ~@]

\* C21: the verbose flag has no effect on behaviour.  Every step of a run is
\* the step the run with the other value of verbose takes from the same
\* state: the configuration differs in verbose only and validates alike, the
\* handlers that read the flag (the only readers) give the same counters and
\* the same exception in flight, and what they log differs in the traceback
\* only.
C21_VerboseHasNoEffect ==
    [][LET w == ~config.verbose
       IN  /\ pc = "Main" =>
                 /\ Validate(ConfigOf(OtherVerbose(args)), args.input_exists)
                      = Validate(ConfigOf(args), args.input_exists)
                 /\ config' = [ConfigOf(OtherVerbose(args)) EXCEPT !.verbose = args.verbose]
           /\ (pc = "LoopHead" /\ pc' = "LoopHead") =>
                 /\ stats' = MessageFailed(stats, w).stats
                 /\ log'.level = MessageFailed(stats, w).log.level
                 /\ log'.exc_info = ~MessageFailed(stats, w).log.exc_info
           /\ (pc = "Counting" /\ pc' = "LoopHead" /\ Unhashable(cur.msg)) =>
                 /\ stats' = MessageFailed([stats EXCEPT !.processed_messages = @ + 1], w).stats
                 /\ log'.level = MessageFailed(stats, w).log.level
           /\ (pc \in {"Open", "LoopHead"} /\ pending' = "Exception") =>
                 /\ pending' = FatalError(w).pending
                 /\ log'.level = FatalError(w).log.level
           /\ log' # log => log'.exc_info = config.verbose
           /\ pc # "Main" => config' = config]_vars

C21_Witness ==
    /\ pc = "Exited"
    /\ proc_result = "returned"
    /\ config.verbose
    /\ log = [level |-> "error", exc_info |-> TRUE]
    /\ stats.failed_messages = 1
    /\ stats.processed_messages = 1
    /\ stats.saved_attachments = 1

\* a body leaf with a payload that decodes
DecodableBody(leaf) ==
    /\ leaf.disp \notin {"attachment", "inline"}
    /\ Len(leaf.payload) > 0
    /\ (leaf.charset = Absent \/ leaf.charset \in KnownCharsets)

\* C22: every leaf with a payload is classified: the attachment list holds
\* the leaves with the disposition attachment or inline, in order, and every
\* body leaf whose payload decodes is in the plain-text or in the markup
\* accumulator, once; none is dropped.
C22_EveryLeafClassified ==
    cp_pc = "done" =>
        LET leaves == LeavesOf(cp_in.root)
            acc == Walk(cp_in.root, NoAccumulators)
            captured == SelectSeq(leaves, Captured)
            bodies == SelectSeq(leaves, DecodableBody)
        IN  /\ cp_out.attachments = acc.atts
            /\ Len(acc.atts) = Len(captured)
            /\ \A k \in 1..Len(captured) : acc.atts[k].payload = captured[k].payload
            /\ Len(acc.text) + Len(acc.html) = Len(bodies)
            /\ \A k \in 1..Len(bodies) :
                 \/ \E j \in 1..Len(acc.text) : acc.text[j] = DecodeBytes(bodies[k].payload)
                 \/ \E j \in 1..Len(acc.html) : acc.html[j] = DecodeBytes(bodies[k].payload)

\* a body leaf whose decoding fails
Undecodable(leaf) ==
    /\ ~leaf.multipart
    /\ leaf.disp \notin {"attachment", "inline"}
    /\ Len(leaf.payload) > 0
    /\ DecodeContent(leaf).error # "none"

\* a part tree without its body leaves whose decoding fails
RECURSIVE Pruned(_)
RECURSIVE PrunedParts(_)
Pruned(node) ==
    IF node.multipart THEN [node EXCEPT !.parts = PrunedParts(node.parts)]
    ELSE IF Undecodable(node) THEN Multipart(<<>>)
    ELSE node

PrunedParts(parts) ==
    IF Len(parts) = 0 THEN <<>>
    ELSE IF Undecodable(Head(parts)) THEN PrunedParts(Tail(parts))
    ELSE <<Pruned(Head(parts))>> \o PrunedParts(Tail(parts))

\* C23: a decode failure on a body leaf is contained: process_message does
\* not raise, and for a multipart message it returns what it returns for the
\* message without the failing leaves: the failing leaf contributes no text,
\* the text and the attachments of every other leaf are extracted.
C23_DecodeFailureContained ==
    cp_pc = "done" =>
        /\ ~cp_out.raised
        /\ cp_in.root.multipart =>
              cp_out = ProcessMessage([cp_in EXCEPT !.root = Pruned(@)])
        /\ Undecodable(cp_in.root) =>
              cp_out.attachments = <<>> /\ cp_out.text_content = NoContent

C23_Witness ==
    /\ cp_pc = "done"
    /\ cp_in.root.multipart
    /\ Len(cp_in.root.parts) = 2
    /\ Undecodable(cp_in.root.parts[1])
    /\ cp_in.root.parts[2] = Multipart(<<Leaf("text/plain", "none", Absent, Absent, HiBytes)>>)
    /\ cp_out.text_content = <<"h", "i">>
    /\ ~cp_out.raised

\* C24: unique paths need a sequential writer.  A writer writes a path that
\* did not exist when it last looked, so a writer that looks after another
\* has written never takes the other's path; two concurrent writers end on
\* the same path only when each looked before the other wrote, and then the
\* second write replaces the first.
C24_ClashOnlyWhenInterleaved ==
    pc = "Race" =>
        /\ \A w \in Writers :
              writers[w].pc \in {"write", "done"} => writers[w].filepath \notin writers[w].seen
        /\ \A u, v \in Writers :
              (u # v /\ writers[u].pc = "done" /\ writers[v].pc = "done"
                    /\ writers[u].filepath = writers[v].filepath)
                 => /\ writers[u].filepath \notin writers[v].seen
                    /\ writers[v].filepath \notin writers[u].seen
                    /\ writers[u].filepath \in clobbered
                    /\ Cardinality({f \in files : f.path = writers[u].filepath}) = 1
        /\ clobbered \cap {f.path : f \in old_files} = {}

\* C24 witness: both writers have returned the same path, the one none of
\* them found taken, and the file holds the payload of the second only.
C24_Witness ==
    /\ pc = "Race"
    /\ writers[1].pc = "done" /\ writers[2].pc = "done"
    /\ writers[1].filepath = writers[2].filepath
    /\ save_count = 2
    /\ Cardinality(written) = 1
    /\ File(writers[1].filepath, WriterPayload(2)) \in files
    /\ ~\E f \in files : f.data = WriterPayload(1)
    /\ old_files # {}

\* C25: every directory the run creates and every file it writes lies under
\* the attachment root, the files at {root}/{sender-bucket}/{file-name},
\* whatever the From header is.
C25_WritesStayUnderRoot ==
    /\ \A d \in dirs :
          \/ d \in Prefixes(BaseDir)
          \/ IsUnder(d, BaseDir)
          \/ \E f \in old_files : d \in Prefixes(Parent(f.path))
    /\ \A f \in files \ old_files :
          /\ IsUnder(f.path, BaseDir)
          /\ Len(f.path) = Len(BaseDir) + 2

\* the sum of the counts of a dictionary
RECURSIVE SumCounts(_)
SumCounts(d) ==
    IF d = {} THEN 0
    ELSE LET e == CHOOSE x \in d : TRUE
         IN  e.count + SumCounts(d \ {e})

\* C26: after the counting step of each message the per-sender counts add up
\* to processed_messages and the per-extension counts add up to
\* saved_attachments.
C26_BreakdownsAddUp ==
    pc \in {"LoopHead", "Finalizing", "Exited"} =>
        /\ SumCounts(stats.senders) = stats.processed_messages
        /\ SumCounts(stats.attachments_by_type) = stats.saved_attachments

\* C27: at the end of a run total_attachments is the number of attachments
\* extracted from the processed messages, so saved_attachments is never
\* above it.
C27_TotalAttachmentsCounted ==
    (pc = "Exited" /\ fin_count = 1) =>
        /\ stats.total_attachments = extracted
        /\ stats.saved_attachments <= stats.total_attachments

\* C28: every new path of the promotion mapping lies in a bucket directory
\* outside the staging tree, and the promoted file is there after
\* post_process_attachments has returned, whether the staging area was
\* removed or kept; also for a file directly at the staging root.
C28_PromotedOutsideStaging ==
    pc \in {"Promoted", "PostProcessed"} =>
        \A e \in promoted[1] :
            /\ ~IsUnder(e.to, TempDir)
            /\ IsUnder(e.to, BaseDir)
            /\ \E f \in files : f.path = e.to

\* C29: for a message that has attachments and no From header every
\* attachment fails the precondition of save and is skipped: the passes of
\* save_attachments write no file and return no path, and the counting step
\* counts the message as processed, under the placeholder sender, not as
\* failed, and leaves saved_attachments and messages_with_attachments alone.
C29_NoSenderSavesNothing ==
    [][(cur.msg.From = Absent /\ Len(cur.atts) > 0) =>
          /\ (pc = "Saving" /\ pc' \in {"Saving", "Counting"}) =>
                /\ files' = files
                /\ cur'.saved_paths = <<>>
                /\ cur'.save_failures = cur.save_failures + 1
                /\ save_count' = save_count
          /\ (pc = "Counting" /\ pc' = "LoopHead") =>
                /\ cur.saved_paths = <<>>
                /\ cur.save_failures = Len(cur.atts)
                /\ stats'.processed_messages = stats.processed_messages + 1
                /\ stats'.failed_messages = stats.failed_messages
                /\ stats'.saved_attachments = stats.saved_attachments
                /\ stats'.messages_with_attachments = stats.messages_with_attachments
                /\ stats'.attachments_by_type = stats.attachments_by_type
                /\ Count(stats'.senders, UnknownSender) = Count(stats.senders, UnknownSender) + 1]_vars

C29_Witness ==
    /\ pc = "Exited"
    /\ proc_result = "returned"
    /\ extracted = 1
    /\ save_count = 0
    /\ files = old_files
    /\ stats.processed_messages = 1
    /\ stats.failed_messages = 0
    /\ stats.saved_attachments = 0
    /\ stats.messages_with_attachments = 0
    /\ Count(stats.senders, UnknownSender) = 1

====
